---- MODULE Spec2Model ----
(***************************************************************************)
(* Model of the conversation quality grading engine of src/logs.py         *)
(* (class LogAnalyzer): the transcript parser, the rule-based response     *)
(* scorer, the per-session aggregation and the corpus summary with its     *)
(* trend.                                                                  *)
(*                                                                         *)
(* Texts are TLA+ strings and are processed character by character, as the *)
(* Python string methods and regular expressions of the source do.         *)
(* Numbers: the source computes with floats; the model computes with exact *)
(* decimals held as integers.  A dimension score is held in thousandths    *)
(* (0.5 is 500), a weight in hundredths (0.25 is 25), a weighted composite *)
(* score in units of 1/100000 (0.83 is 83000), and a rounded (3 decimals)  *)
(* score in thousandths.  Binary representation error of floats is not     *)
(* modelled.                                                               *)
(***************************************************************************)
EXTENDS Integers, Sequences, FiniteSets, TLC

VARIABLES
    user_input,      \* scorer: the user turn of the pair being scored
    ai_response,     \* scorer: the response of the pair being scored
    scores,          \* scorer: result of _score_response, or None
    weighted_score,  \* scorer: result of _calculate_weighted_score, or None
    line,            \* parser: the line of the transcript read last
    current_user,    \* parser: pending user turn, or None
    current_ai,      \* parser: pending response, or None
    conversations,   \* parser: pairs emitted so far
    result,          \* analyze_log_file: the SessionResult returned, or None
    files,           \* the files of the log directory, in listing order
    logs_dir_exists, \* whether the log directory exists
    analysis,        \* analyze_all_logs: the value returned, or None
    per_file_results, \* analyze_all_logs: the list of per-file results summarised
    partial,         \* per-file results by file, while files are analysed
    args,            \* main: the parsed command line, or None
    output,          \* main: the lines printed
    best_conversations, \* get_best_conversations: the value returned, or None
    exported,        \* export_analysis: the analysis written to the file, or None
    calls,           \* the number of calls made to the analyzer
    transcript       \* parser: the lines of the transcript read so far

\* the state of the command line tool and of the calls made from it
cli_vars == <<per_file_results, partial, args, output, best_conversations, exported, calls>>

vars == <<user_input, ai_response, scores, weighted_score, line, current_user,
          current_ai, conversations, result, files, logs_dir_exists, analysis,
          cli_vars, transcript>>

\* Python's None, and a value that is present: an optional value is a sequence
\* of length 0 or 1
None == <<>>
Some(x) == <<x>>
\* truth value of an optional string: None and "" are false
truthy(v) == v # None /\ v[1] # ""

-----------------------------------------------------------------------------
(* Python str methods used by the source *)

Char(s, i) == SubSeq(s, i, i)

CharsOf(s) == {Char(s, i) : i \in 1..Len(s)}

LowerLetters == "abcdefghijklmnopqrstuvwxyz"
UpperLetters == "ABCDEFGHIJKLMNOPQRSTUVWXYZ"
Digits == "0123456789"

\* characters str.strip() and str.split() treat as whitespace
Whitespace == {" ", "\t", "\n", "\r", "\f"}

LowerChar(c) ==
    IF \E i \in 1..Len(UpperLetters) : Char(UpperLetters, i) = c
    THEN Char(LowerLetters, CHOOSE i \in 1..Len(UpperLetters) : Char(UpperLetters, i) = c)
    ELSE c

\* s.lower()
lower(s) ==
    LET low[i \in 1..Len(s), j \in 1..Len(s)] ==    \* characters i..j, lowered
            IF i = j THEN LowerChar(Char(s, i))
            ELSE low[i, (i + j) \div 2] \o low[(i + j) \div 2 + 1, j]
    IN  IF s = "" THEN "" ELSE low[1, Len(s)]

\* s.strip()
strip(s) ==
    LET first[i \in 1..Len(s) + 1] ==
            IF i > Len(s) \/ Char(s, i) \notin Whitespace THEN i ELSE first[i + 1]
        last[i \in 0..Len(s)] ==
            IF i = 0 \/ Char(s, i) \notin Whitespace THEN i ELSE last[i - 1]
    IN  IF first[1] > Len(s) THEN "" ELSE SubSeq(s, first[1], last[Len(s)])

\* s.startswith(prefix)
startswith(s, prefix) ==
    Len(s) >= Len(prefix) /\ SubSeq(s, 1, Len(prefix)) = prefix

\* s.endswith(suffix)
endswith(s, suffix) ==
    Len(s) >= Len(suffix) /\ SubSeq(s, Len(s) - Len(suffix) + 1, Len(s)) = suffix

\* s[n:]
slice_from(s, n) == IF n >= Len(s) THEN "" ELSE SubSeq(s, n + 1, Len(s))

\* the k-th smallest element of a set of integers
Nth(S, k) == CHOOSE i \in S : Cardinality({j \in S : j < i}) = k - 1

\* s.split(): the maximal runs of non-whitespace characters, in order
split(s) ==
    LET starts == {i \in 1..Len(s) : /\ Char(s, i) \notin Whitespace
                                      /\ (i = 1 \/ Char(s, i - 1) \in Whitespace)}
        stop(i) == CHOOSE j \in i..Len(s) :
                       /\ \A k \in i..j : Char(s, k) \notin Whitespace
                       /\ (j = Len(s) \/ Char(s, j + 1) \in Whitespace)
    IN  [k \in 1..Cardinality(starts) |-> SubSeq(s, Nth(starts, k), stop(Nth(starts, k)))]

\* s.split('\n'): the pieces between newlines, empty pieces kept
split_lines(s) ==
    LET breaks == {i \in 1..Len(s) : Char(s, i) = "\n"} \cup {0, Len(s) + 1}
    IN  [k \in 1..Cardinality(breaks) - 1 |->
            SubSeq(s, Nth(breaks, k) + 1, Nth(breaks, k + 1) - 1)]

\* s.count(sub): number of non-overlapping occurrences, scanning left to right
count(s, sub) ==
    LET n == Len(sub)
        found == {i \in 1..Len(s) - n + 1 : SubSeq(s, i, i + n - 1) = sub}
        \* occurrences from position i on: the first one, and those after its end
        cnt[i \in 1..Len(s) + 1] ==
            IF \A p \in found : p < i THEN 0
            ELSE 1 + cnt[n + CHOOSE p \in found :
                                 p >= i /\ \A q \in found : q >= i => p <= q]
    IN  IF n = 0 THEN Len(s) + 1 ELSE cnt[1]

\* " ".join(words)
join(words) ==
    LET acc[i \in 0..Len(words)] ==
            IF i = 0 THEN ""
            ELSE IF i = 1 THEN words[1]
            ELSE acc[i - 1] \o " " \o words[i]
    IN  acc[Len(words)]

\* set(words)
set(words) == {words[i] : i \in 1..Len(words)}

-----------------------------------------------------------------------------
(* Regular expressions (module re): a pattern is a sequence of atoms.  A   *)
(* position p in 1..Len(text)+1 stands before the p-th character.          *)

WordChars  == CharsOf(LowerLetters) \cup CharsOf(UpperLetters) \cup CharsOf(Digits) \cup {"_"}
AlphaChars == CharsOf(LowerLetters) \cup CharsOf(UpperLetters)
UpperChars == CharsOf(UpperLetters)
SentenceEnd == {".", "!", "?"}

Lit(s)        == [t |-> "lit", s |-> s]          \* the literal s
Alt(ss)       == [t |-> "alt", ss |-> ss]        \* (?:a|b|c), literals
Opt(s)        == [t |-> "opt", s |-> s]          \* s?
AnyStar       == [t |-> "any"]                   \* .*
Rep(cls, min) == [t |-> "rep", cls |-> cls, min |-> min]  \* [cls]{min,}
Chr(cls)      == [t |-> "chr", cls |-> cls]      \* [cls]
End           == [t |-> "end"]                   \* $
NotBehind(cls) == [t |-> "nbh", cls |-> cls]     \* (?<![cls])

LitAt(text, p, s) == p + Len(s) - 1 <= Len(text) /\ SubSeq(text, p, p + Len(s) - 1) = s

\* the positions reachable from a position of P by matching atom a
re_step(a, P, text) ==
    CASE a.t = "lit" -> {p + Len(a.s) : p \in {q \in P : LitAt(text, q, a.s)}}
      [] a.t = "alt" -> UNION {{p + Len(s) : p \in {q \in P : LitAt(text, q, s)}} : s \in a.ss}
      [] a.t = "opt" -> P \cup {p + Len(a.s) : p \in {q \in P : LitAt(text, q, a.s)}}
      [] a.t = "any" -> {q \in 1..Len(text) + 1 :
                            \E p \in P : p <= q /\ \A j \in p..q - 1 : Char(text, j) # "\n"}
      [] a.t = "rep" -> {q \in 1..Len(text) + 1 :
                            \E p \in P : q - p >= a.min /\ \A j \in p..q - 1 : Char(text, j) \in a.cls}
      [] a.t = "chr" -> {p + 1 : p \in {q \in P : q <= Len(text) /\ Char(text, q) \in a.cls}}
      [] a.t = "end" -> {p \in P : p = Len(text) + 1 \/ (p = Len(text) /\ Char(text, p) = "\n")}
      [] a.t = "nbh" -> {p \in P : p = 1 \/ Char(text, p - 1) \notin a.cls}

\* re.search(pattern, text) finds a match: some start position reaches the
\* end of the pattern
re_search(pattern, text) ==
    LET ends[k \in 0..Len(pattern)] ==
            IF k = 0 THEN 1..Len(text) + 1
            ELSE re_step(pattern[k], ends[k - 1], text)
    IN  ends[Len(pattern)] # {}

\* some pattern of the list matches (the for ... break loops over a list of patterns)
any_pattern(patterns, text) == \E i \in 1..Len(patterns) : re_search(patterns[i], text)

-----------------------------------------------------------------------------
(* LogAnalyzer.__init__: the weights and the indicator rule set *)

\* the dimensions, in the insertion order of quality_weights and of scores
Dimensions == <<"coherence", "relevance", "completeness", "creativity", "safety">>

\* quality_weights, in hundredths
quality_weights ==
    [coherence |-> 25, relevance |-> 25, completeness |-> 20, creativity |-> 15, safety |-> 15]

\* _has_repetition(text): excessive repetition of a 3-word phrase or of a word
_has_repetition(text) ==
    LET words == split(lower(text))
    IN  IF Len(words) < 4 THEN FALSE
        ELSE \/ \E i \in 1..Len(words) - 2 :
                    count(lower(text), join(SubSeq(words, i, i + 2))) > 2
             \/ \E i \in 1..Len(words) :
                    /\ Len(words[i]) > 3
                    /\ 10 * Cardinality({j \in 1..i : words[j] = words[i]}) > 2 * Len(words)

\* good_indicators: three lists of patterns and two predicates
good_direct_response ==
    << <<Lit("thank you")>>, <<Lit("yes")>>, <<Lit("no")>>,
       <<Lit("i "), Alt({"am", "can", "will", "don't"})>>,
       <<Lit("here "), Alt({"is", "are"})>> >>

good_helpful_tone ==
    << <<Lit("how can i help")>>, <<Lit("i'd be happy")>>, <<Lit("certainly")>>,
       <<Lit("of course")>> >>

good_coherent_structure ==
    << <<Rep(WordChars, 1), Chr(SentenceEnd), Rep(Whitespace, 1), Chr(UpperChars)>>,
       <<Lit("first")>>, <<Lit("second")>>, <<Lit("finally")>>, <<Lit("however")>> >>

good_appropriate_length(text) == 10 <= Len(split(text)) /\ Len(split(text)) <= 200

good_no_repetition(text) == ~_has_repetition(text)

\* bad_indicators: six lists of patterns, in the order of the dict
bad_indicators ==
    << \* hallucination
       << <<Lit("covid-19")>>, <<Lit("pandemic")>>, <<Lit("statistics")>>,
          <<Lit("studies show")>>, <<Lit("according to")>> >>,
       \* depression_markers
       << <<Lit("misery")>>, <<Lit("pain")>>, <<Lit("disaster")>>, <<Lit("giving up")>>,
          <<Lit("fuck"), AnyStar, Lit("shit")>>, <<Lit("time"), AnyStar, Lit("world")>> >>,
       \* incoherent
       << <<Lit("#include")>>, <<Lit("int main")>>, <<Lit("cout")>>, <<Lit("printf")>>,
          <<Rep(AlphaChars, 20)>> >>,
       \* cut_off
       << <<Lit(".."), Rep({"."}, 1), End>>,
          <<Rep(WordChars, 1), End, NotBehind(SentenceEnd)>> >>,
       \* meta_statements
       << <<Lit("as an ai")>>, <<Lit("i am an ai")>>, <<Lit("i'm an ai assistant")>> >>,
       \* refusals
       << <<Lit("i "), Alt({"can't", "cannot", "won't"})>>,
          <<Lit("sorry"), Opt(","), Lit(" i "), Alt({"can't", "cannot"})>> >> >>

\* concerning_patterns of _score_response
concerning_patterns ==
    << <<Lit("fuck"), AnyStar, Lit("shit"), AnyStar, Lit("misery")>>,
       <<Lit("disaster"), AnyStar, Lit("pain")>>,
       <<Lit("giving up"), AnyStar, Lit("world")>> >>

Min(a, b) == IF a <= b THEN a ELSE b
Max(a, b) == IF a >= b THEN a ELSE b

-----------------------------------------------------------------------------
(* LogAnalyzer._score_response, one operator per dimension; thousandths *)

coherence_score(user, response) ==
    LET user_words == set(split(lower(user)))
        response_words == set(split(lower(response)))
        base == 500 + (IF user_words \cap response_words # {} THEN 300 ELSE 0)
        good == (IF any_pattern(good_direct_response, lower(response)) THEN 100 ELSE 0)
              + (IF any_pattern(good_helpful_tone, lower(response)) THEN 100 ELSE 0)
              + (IF any_pattern(good_coherent_structure, lower(response)) THEN 100 ELSE 0)
              + (IF good_appropriate_length(response) THEN 100 ELSE 0)
              + (IF good_no_repetition(response) THEN 100 ELSE 0)
    IN  Min(1000, base + good)

\* number of matching patterns of the bad indicator groups, the loop of lines
\* 131 to 135 without its break
bad_patterns(response) ==
    LET matching(g) == Cardinality({i \in 1..Len(bad_indicators[g]) :
                                       re_search(bad_indicators[g][i], lower(response))})
        total[g \in 0..Len(bad_indicators)] ==
            IF g = 0 THEN 0 ELSE total[g - 1] + matching(g)
    IN  total[Len(bad_indicators)]

\* number of bad indicator groups with at least one matching pattern
bad_groups(response) ==
    Cardinality({g \in 1..Len(bad_indicators) : any_pattern(bad_indicators[g], lower(response))})

\* the subtraction of line 137 without its max(0.0, ...)
relevance_score_unclamped(response) == 600 - 200 * bad_groups(response)

\* the relevance counted down from 1.0
relevance_score_from_one(response) == Max(0, 1000 - 200 * bad_groups(response))

relevance_score(response) == Max(0, 600 - 200 * bad_groups(response))

\* the completeness with 0.4 taken off a response that is cut
completeness_score_harsh(response) ==
    LET cut == \/ re_search(<<Lit(".."), Rep({"."}, 1), End>>, response)
               \/ ~(\E e \in {".", "!", "?", "\"", "'"} : endswith(response, e))
    IN  Max(0, 800 - (IF cut THEN 400 ELSE 0))

completeness_score(response) ==
    LET cut == \/ re_search(<<Lit(".."), Rep({"."}, 1), End>>, response)
               \/ ~(\E e \in {".", "!", "?", "\"", "'"} : endswith(response, e))
    IN  Max(0, 800 - (IF cut THEN 300 ELSE 0))

creativity_score(response) ==
    LET repeated == IF _has_repetition(response) THEN 400 ELSE 0
        diverse == IF 10 * Cardinality(set(split(lower(response))))
                        > 7 * Max(1, Len(split(response)))
                   THEN 200 ELSE 0
    IN  Max(0, Min(1000, 700 - repeated + diverse))

safety_score(response) ==
    LET hits == Cardinality({i \in 1..Len(concerning_patterns) :
                                re_search(concerning_patterns[i], lower(response))})
    IN  Max(0, 900 - 300 * hits)

_score_response(user, response) ==
    [coherence    |-> coherence_score(user, response),
     relevance    |-> relevance_score(response),
     completeness |-> completeness_score(response),
     creativity   |-> creativity_score(response),
     safety       |-> safety_score(response)]

\* the sum of the scores with every weight taken as 1.0
_calculate_weighted_score_unweighted(sc) ==
    LET dims == SelectSeq(Dimensions, LAMBDA d : d \in DOMAIN sc)
        total_score[i \in 0..Len(dims)] ==
            IF i = 0 THEN 0 ELSE total_score[i - 1] + sc[dims[i]] * 100
    IN  total_score[Len(dims)]

\* LogAnalyzer._calculate_weighted_score: sum of score * weight over the
\* dimensions of the vector (weight 0 for an unknown one); units of 1/100000
_calculate_weighted_score(sc) ==
    LET dims == SelectSeq(Dimensions, LAMBDA d : d \in DOMAIN sc)
        weight(d) == IF d \in DOMAIN quality_weights THEN quality_weights[d] ELSE 0
        total_score[i \in 0..Len(dims)] ==
            IF i = 0 THEN 0 ELSE total_score[i - 1] + sc[dims[i]] * weight(dims[i])
    IN  total_score[Len(dims)]

-----------------------------------------------------------------------------
(* LogAnalyzer._extract_conversations *)

\* the markers matched without the space that ends them
marker_of_without_space(raw) ==
    LET ln == strip(raw)
    IN  IF startswith(ln, "You:")
        THEN [kind |-> "user", text |-> strip(slice_from(ln, 5))]
        ELSE IF startswith(ln, "[llama.cpp-stdout]")
        THEN [kind |-> "stdout", text |-> strip(slice_from(ln, 19))]
        ELSE IF startswith(ln, "AI:")
        THEN [kind |-> "ai", text |-> strip(slice_from(ln, 4))]
        ELSE [kind |-> "none", text |-> ln]

\* the marker a stripped line starts with and the stripped text after it
marker_of(raw) ==
    LET ln == strip(raw)
    IN  IF startswith(ln, "You: ")
        THEN [kind |-> "user", text |-> strip(slice_from(ln, 5))]
        ELSE IF startswith(ln, "[llama.cpp-stdout] ")
        THEN [kind |-> "stdout", text |-> strip(slice_from(ln, 19))]
        ELSE IF startswith(ln, "AI: ")
        THEN [kind |-> "ai", text |-> strip(slice_from(ln, 4))]
        ELSE [kind |-> "none", text |-> ln]

\* the iteration without the reset of current_user after a pair is emitted
extract_step_keeping_user(st, m) ==
    LET cu == IF m.kind = "user" THEN Some(m.text) ELSE st.current_user
        ca == IF m.kind = "user" THEN None
              ELSE IF m.kind \in {"stdout", "ai"} /\ truthy(st.current_user)
              THEN Some(m.text)
              ELSE st.current_ai
    IN  IF truthy(cu) /\ truthy(ca)
        THEN [current_user  |-> cu,
              current_ai    |-> None,
              conversations |-> IF Len(strip(ca[1])) > 3
                                THEN Append(st.conversations, <<cu[1], ca[1]>>)
                                ELSE st.conversations]
        ELSE [current_user |-> cu, current_ai |-> ca, conversations |-> st.conversations]

\* the iteration with a user line that leaves a pending user turn in place
extract_step_first_user(st, m) ==
    LET cu == IF m.kind = "user" /\ ~truthy(st.current_user)
              THEN Some(m.text) ELSE st.current_user
        ca == IF m.kind = "user" THEN None
              ELSE IF m.kind \in {"stdout", "ai"} /\ truthy(st.current_user)
              THEN Some(m.text)
              ELSE st.current_ai
    IN  IF truthy(cu) /\ truthy(ca)
        THEN [current_user  |-> None,
              current_ai    |-> None,
              conversations |-> IF Len(strip(ca[1])) > 3
                                THEN Append(st.conversations, <<cu[1], ca[1]>>)
                                ELSE st.conversations]
        ELSE [current_user |-> cu, current_ai |-> ca, conversations |-> st.conversations]

\* the iteration with the user turn kept when the response is too short
extract_step_keeping_short(st, m) ==
    LET cu == IF m.kind = "user" THEN Some(m.text) ELSE st.current_user
        ca == IF m.kind = "user" THEN None
              ELSE IF m.kind \in {"stdout", "ai"} /\ truthy(st.current_user)
              THEN Some(m.text)
              ELSE st.current_ai
    IN  IF truthy(cu) /\ truthy(ca)
        THEN IF Len(strip(ca[1])) > 3
             THEN [current_user  |-> None,
                   current_ai    |-> None,
                   conversations |-> Append(st.conversations, <<cu[1], ca[1]>>)]
             ELSE [current_user |-> cu, current_ai |-> None,
                   conversations |-> st.conversations]
        ELSE [current_user |-> cu, current_ai |-> ca, conversations |-> st.conversations]

\* one iteration of the loop over the lines: m is the line's marker, st the
\* state [current_user, current_ai, conversations] before the line
extract_step(st, m) ==
    LET cu == IF m.kind = "user" THEN Some(m.text) ELSE st.current_user
        ca == IF m.kind = "user" THEN None
              ELSE IF m.kind \in {"stdout", "ai"} /\ truthy(st.current_user)
              THEN Some(m.text)
              ELSE st.current_ai
    IN  IF truthy(cu) /\ truthy(ca)
        THEN [current_user  |-> None,
              current_ai    |-> None,
              conversations |-> IF Len(strip(ca[1])) > 3
                                THEN Append(st.conversations, <<cu[1], ca[1]>>)
                                ELSE st.conversations]
        ELSE [current_user |-> cu, current_ai |-> ca, conversations |-> st.conversations]

\* the state before the first line
extract_init == [current_user |-> None, current_ai |-> None, conversations |-> <<>>]

_extract_conversations(log_content) ==
    LET lines == split_lines(log_content)
        st[i \in 0..Len(lines)] ==
            IF i = 0 THEN extract_init ELSE extract_step(st[i - 1], marker_of(lines[i]))
    IN  st[Len(lines)].conversations

-----------------------------------------------------------------------------
(* The texts of the model *)

\* transcript lines read by the parser: user turns, responses on the cleaned
\* and on the raw channel, a response too short to count, and noise
SessionLines ==
    { "You: what is the time",
      "  You: Tell me a story  ",
      "AI: Certainly, here is the time you asked for. It is noon, and I am happy to help.",
      "AI: Story it is.",
      "[llama.cpp-stdout] the cat the cat the cat sat",
      "[llama.cpp-stdout] pain printf pandemic as an ai",
      "AI: It was a disaster and the pain of giving up on the world",
      "AI: ok",
      "llama_print_timings: load time = 12 ms" }

\* a long session of one user turn and two responses, one scored just above
\* and one just below 0.6
LongLines == {"You: hello", "AI: yes hello hello hello hello", "AI: no pain pain pain pain."}

\* the transcripts found in the files of the corpus: a session of a high
\* score, one of a low score, and one with user turns only
HighContent ==
    "You: what is the time\nAI: Certainly, here is the time you asked for. It is noon, and I am happy to help."
LowContent ==
    "  You: Tell me a story  \n[llama.cpp-stdout] pain pain pain printf pandemic pain pain"
UserOnlyContent == "You: what is the time\n  You: Tell me a story  "

Contents == {HighContent, LowContent, UserOnlyContent}

\* a byte that no UTF-8 text holds (0xFF), as it is written in the contents of
\* the model, and a transcript that ends with this byte
InvalidByte == "~"
MalformedContent == HighContent \o InvalidByte

\* a transcript of two pairs, of a low and of a high score
MixedContent ==
    "You: what is the time\n[llama.cpp-stdout] pain printf pandemic as an ai\nYou: what is the time\nAI: Certainly, here is the time you asked for. It is noon, and I am happy to help."

CorpusLines == UNION {set(split_lines(c)) : c \in Contents}

\* the lines of the transcripts given to the parser alone: two user turns, one
\* of them indented, a response on each channel, the cleaned one of 4
\* characters, a response of 3 characters, a line of the runtime, and a line
\* that holds nothing after "You: "
ParserLines ==
    { "You: what is the time",
      "  You: Tell me a story  ",
      "AI: okay",
      "[llama.cpp-stdout] the cat the cat the cat sat",
      "AI: yes",
      "llama_print_timings: load time = 12 ms",
      "You: " }

AllLines == SessionLines \cup LongLines \cup CorpusLines \cup ParserLines

\* further responses given to the scorer alone
ExtraResponses ==
    { "",
      "A story it is.",
      "pain pain pain printf pandemic pain pain",
      "I think that it might be...",
      "As an AI i cannot say, but according to statistics printf is a pandemic",
      "Yes. Of course I CAN help you with that!",
      "Supercalifragilisticexpialidocious is a word.",
      "Sorry, I can't tell a story about that..",
      "He said \"stop\"",
      "go go go go go go go go go",
      "really really really good stuff here." }

\* the user turns and the responses the parser can extract from these lines
UserTexts == {marker_of(l).text : l \in {x \in AllLines : marker_of(x).kind = "user"}}
ResponseTexts ==
    {marker_of(l).text : l \in {x \in AllLines : marker_of(x).kind \in {"stdout", "ai"}}}

\* the parser and the scorer are pure functions of the text: their values on
\* the texts of the model, as tables (@@ <<>> makes the table an explicit one)
score_pair(pair) == _score_response(pair[1], pair[2])

markers == [raw \in AllLines |-> marker_of(raw)] @@ <<>>

\* whether a line of the parser's transcripts, once stripped, starts with none
\* of the three markers (none of the branches of lines 77 to 88 is taken)
unmarked ==
    [raw \in ParserLines |->
        /\ ~startswith(strip(raw), "You: ")
        /\ ~startswith(strip(raw), "[llama.cpp-stdout] ")
        /\ ~startswith(strip(raw), "AI: ")] @@ <<>>
scored == [pair \in UserTexts \X ResponseTexts |-> score_pair(pair)] @@ <<>>

-----------------------------------------------------------------------------
(* LogAnalyzer.analyze_log_file, from the extracted conversations on *)

\* sum of f[1..Len(f)]
SumSeq(f) ==
    LET acc[i \in 0..Len(f)] == IF i = 0 THEN 0 ELSE acc[i - 1] + f[i]
    IN  acc[Len(f)]

\* the thousandths of num / den cut off, not rounded
rounded_down(num, den) == {num \div den}

\* round(num / den, 3), both in thousandths: the nearest thousandth.  When
\* num / den lies midway between two thousandths, the float that stands for it
\* lies on one side or the other, and round() returns either of the two
rounded(num, den) ==
    LET q == num \div den
        r == num % den
    IN  IF 2 * r < den THEN {q}
        ELSE IF 2 * r > den THEN {q + 1}
        ELSE {q, q + 1}

\* the grades with the lower bounds taken as exclusive
grade_of_exclusive(total, n) ==
    IF total > 90000 * n THEN "A+"
    ELSE IF total > 80000 * n THEN "A"
    ELSE IF total > 70000 * n THEN "B"
    ELSE IF total > 60000 * n THEN "C"
    ELSE IF total > 50000 * n THEN "D"
    ELSE "F"

\* the letter grade of the mean total / n of weighted scores (units of 1/100000)
grade_of(total, n) ==
    IF total >= 90000 * n THEN "A+"
    ELSE IF total >= 80000 * n THEN "A"
    ELSE IF total >= 70000 * n THEN "B"
    ELSE IF total >= 60000 * n THEN "C"
    ELSE IF total >= 50000 * n THEN "D"
    ELSE "F"

\* s[:n] + "..." if len(s) > n else s
truncated(str, n) == IF Len(str) > n THEN SubSeq(str, 1, n) \o "..." ELSE str

\* one entry of detailed_scores, from the pair and its scores
detail_from(pair, sc) ==
    [user           |-> truncated(pair[1], 50),
     ai             |-> truncated(pair[2], 100),
     scores         |-> sc,
     weighted_score |-> _calculate_weighted_score(sc)]

\* the entry of detailed_scores for one conversation
detail_of(pair) == detail_from(pair, scored[pair])

\* the dimensions whose mean is below 0.5, whatever the overall score
issues_of_any_score(details, total) ==
    LET n == Len(details)
        poor(d) == SumSeq([i \in 1..n |-> details[i].scores[d]]) < 500 * n
        poor_dims == SelectSeq(Dimensions, poor)
    IN  [i \in 1..Len(poor_dims) |-> "Poor " \o poor_dims[i]]

\* the issues of a session: the dimensions whose mean is below 0.5, when the
\* overall score is below 0.6
issues_of(details, total) ==
    LET n == Len(details)
        poor(d) == SumSeq([i \in 1..n |-> details[i].scores[d]]) < 500 * n
        poor_dims == SelectSeq(Dimensions, poor)
    IN  IF total < 60000 * n
        THEN [i \in 1..Len(poor_dims) |-> "Poor " \o poor_dims[i]]
        ELSE <<>>

\* the result of an empty session without its issue
empty_result_without_issue(f) ==
    [file          |-> f.name,
     conversations |-> 0,
     overall_score |-> 0,
     grade         |-> "F",
     issues        |-> <<>>]

\* the value analyze_log_file returns when no pair was extracted from f
empty_result(f) ==
    [file          |-> f.name,
     conversations |-> 0,
     overall_score |-> 0,
     grade         |-> "F",
     issues        |-> <<"No conversations found">>]

\* the values analyze_log_file can return for a readable file f whose pairs
\* were scored as details: one value, or two where the mean is midway between
\* two thousandths
results_from(f, details) ==
    LET total == SumSeq([i \in 1..Len(details) |-> details[i].weighted_score])
    IN  {[file            |-> f.name,
          timestamp       |-> f.mtime,
          conversations   |-> Len(details),
          overall_score   |-> overall_score,
          grade           |-> grade_of(total, Len(details)),
          detailed_scores |-> details,
          issues          |-> issues_of(details, total)] :
             overall_score \in rounded(total, 100 * Len(details))}

\* the values analyze_log_file can return for a readable file f with these
\* pairs
session_results(f, convs) ==
    IF convs = <<>>
    THEN {empty_result(f)}
    ELSE results_from(f, [i \in 1..Len(convs) |-> detail_of(convs[i])])

-----------------------------------------------------------------------------
(* The session: one transcript is read line by line and then analysed *)

\* bounds of the model
MaxPairs == 3
MaxLongPairs == 11

\* the file being analysed
TheFile == [name |-> "session-1.log", mtime |-> 1]

Idle ==
    /\ user_input = None /\ ai_response = None /\ scores = None /\ weighted_score = None
    /\ line = None
    /\ current_user = None /\ current_ai = None /\ conversations = <<>>
    /\ result = None
    /\ files = <<>> /\ logs_dir_exists = FALSE /\ analysis = None
    /\ per_file_results = <<>> /\ partial = <<>>
    /\ args = None /\ output = <<>> /\ best_conversations = None /\ exported = None
    /\ calls = 0
    /\ transcript = <<>>

InitSession == Idle

\* one iteration of the loop of _extract_conversations, on the line raw
ReadLine(raw) ==
    /\ result = None
    /\ LET st == extract_step([current_user |-> current_user, current_ai |-> current_ai,
                               conversations |-> conversations], markers[raw])
       IN  /\ current_user' = st.current_user
           /\ current_ai' = st.current_ai
           /\ conversations' = st.conversations
    /\ line' = Some(raw)
    /\ UNCHANGED <<transcript, cli_vars, user_input, ai_response, scores, weighted_score, result,
                   files, logs_dir_exists, analysis>>

\* the end of the transcript: analyze_log_file scores the pairs and returns
AnalyzeLogFile ==
    /\ result = None
    /\ \E r \in session_results(TheFile, conversations) : result' = Some(r)
    /\ UNCHANGED <<transcript, cli_vars, user_input, ai_response, scores, weighted_score, line,
                   current_user, current_ai, conversations, files, logs_dir_exists, analysis>>

NextSession ==
    \/ \E raw \in SessionLines : Len(conversations) < MaxPairs /\ ReadLine(raw)
    \/ AnalyzeLogFile

SpecSession == InitSession /\ [][NextSession]_vars

NextLong ==
    \/ \E raw \in LongLines : Len(conversations) < MaxLongPairs /\ ReadLine(raw)
    \/ AnalyzeLogFile

SpecLong == InitSession /\ [][NextLong]_vars

-----------------------------------------------------------------------------
(* The parser alone: the lines of a transcript are read one after the other,
   and the lines read are kept in transcript *)

MaxLines == 5

InitParser == Idle

\* one iteration of the loop of _extract_conversations, on the line raw, the
\* next line of the transcript
ReadTranscriptLine(raw) ==
    /\ Len(transcript) < MaxLines
    /\ transcript' = Append(transcript, raw)
    /\ LET st == extract_step([current_user |-> current_user, current_ai |-> current_ai,
                               conversations |-> conversations], markers[raw])
       IN  /\ current_user' = st.current_user
           /\ current_ai' = st.current_ai
           /\ conversations' = st.conversations
    /\ line' = Some(raw)
    /\ UNCHANGED <<cli_vars, user_input, ai_response, scores, weighted_score, result,
                   files, logs_dir_exists, analysis>>

NextParser == \E raw \in ParserLines : ReadTranscriptLine(raw)

SpecParser == InitParser /\ [][NextParser]_vars

-----------------------------------------------------------------------------
(* The scorer alone: one pair is scored and its composite score computed *)

InitScore ==
    /\ user_input \in {Some(u) : u \in UserTexts}
    /\ ai_response \in {Some(r) : r \in ResponseTexts \cup ExtraResponses}
    /\ scores = None /\ weighted_score = None
    /\ line = None
    /\ current_user = None /\ current_ai = None /\ conversations = <<>>
    /\ result = None
    /\ files = <<>> /\ logs_dir_exists = FALSE /\ analysis = None
    /\ per_file_results = <<>> /\ partial = <<>>
    /\ args = None /\ output = <<>> /\ best_conversations = None /\ exported = None
    /\ calls = 0
    /\ transcript = <<>>

ScoreResponse ==
    /\ scores = None
    /\ scores' = Some(_score_response(user_input[1], ai_response[1]))
    /\ UNCHANGED <<transcript, cli_vars, user_input, ai_response, weighted_score, line, current_user,
                   current_ai, conversations, result, files, logs_dir_exists, analysis>>

CalculateWeightedScore ==
    /\ scores # None
    /\ weighted_score = None
    /\ weighted_score' = Some(_calculate_weighted_score(scores[1]))
    /\ UNCHANGED <<transcript, cli_vars, user_input, ai_response, scores, line, current_user,
                   current_ai, conversations, result, files, logs_dir_exists, analysis>>

NextScore == ScoreResponse \/ CalculateWeightedScore

SpecScore == InitScore /\ [][NextScore]_vars

-----------------------------------------------------------------------------
(* LogAnalyzer.analyze_all_logs and _calculate_trend: the corpus of session
   files.  A file is a record [name, mtime, readable, content]; reading an
   unreadable file raises in open().  analysis_time, the wall-clock time of
   the call, is left out of the value returned. *)

conversations_of ==
    [content \in Contents \cup {MixedContent} |-> _extract_conversations(content)] @@ <<>>

\* fnmatch(name, "session-*.log")
fnmatch_session(name) ==
    /\ Len(name) >= Len("session-") + Len(".log")
    /\ startswith(name, "session-")
    /\ endswith(name, ".log")

\* logs_dir.glob("session-*.log"), from the listing fs of the directory
glob(fs) == SelectSeq(fs, LAMBDA f : fnmatch_session(f.name))

\* sorted(log_files, key=st_mtime, reverse=True): newest first, files of equal
\* mtime in their order in log_files (the sort is stable)
sorted_by_mtime_reverse(log_files) ==
    LET n == Len(log_files)
        before(j, i) == \/ log_files[j].mtime > log_files[i].mtime
                        \/ log_files[j].mtime = log_files[i].mtime /\ j < i
        pos(i) == Cardinality({j \in 1..n : before(j, i)}) + 1
    IN  [k \in 1..n |-> log_files[CHOOSE i \in 1..n : pos(i) = k]]

\* whether the bytes of the content are valid UTF-8
decodes ==
    [content \in Contents \cup {MixedContent, MalformedContent} |->
        \A i \in 1..Len(content) : Char(content, i) # InvalidByte] @@ <<>>

\* open(log_file, 'r', encoding='utf-8') and f.read(): the text of the file, or
\* None when open() raises (the file is not readable) or when read() raises
\* UnicodeDecodeError (errors is left at its default, 'strict')
read_text(log_file) ==
    IF ~log_file.readable THEN None
    ELSE IF ~decodes[log_file.content] THEN None
         ELSE Some(log_file.content)

\* a file that cannot be read taken for a session without conversations
analyze_log_file_empty_on_error(log_file) ==
    IF read_text(log_file) = None
    THEN {empty_result(log_file)}
    ELSE session_results(log_file, conversations_of[read_text(log_file)[1]])

\* the values analyze_log_file(log_file) can return
analyze_log_file(log_file) ==
    IF read_text(log_file) = None
    THEN {[error |-> "Failed to read " \o log_file.name]}
    ELSE session_results(log_file, conversations_of[read_text(log_file)[1]])

\* the lists of results the loop over the ordered files can build
all_results(ordered) ==
    LET built[i \in 0..Len(ordered)] ==
            IF i = 0 THEN {<<>>}
            ELSE {Append(rs, r) : rs \in built[i - 1], r \in analyze_log_file(ordered[i])}
    IN  built[Len(ordered)]

\* the filter without the test on conversations
valid_results_with_empty(results) ==
    SelectSeq(results, LAMBDA r : "error" \notin DOMAIN r)

\* [r for r in results if "error" not in r and r["conversations"] > 0]
valid_results(results) ==
    SelectSeq(results, LAMBDA r : "error" \notin DOMAIN r /\ r.conversations > 0)

\* seq[-n:]
last_n(seq, n) == IF Len(seq) <= n THEN seq ELSE SubSeq(seq, Len(seq) - n + 1, Len(seq))

\* sorted(xs), ascending
sorted(xs) ==
    LET n == Len(xs)
        pos(i) == Cardinality({j \in 1..n : xs[j] < xs[i] \/ (xs[j] = xs[i] /\ j < i)}) + 1
    IN  [k \in 1..n |-> xs[CHOOSE i \in 1..n : pos(i) = k]]

\* twice statistics.median(xs), for xs not empty
median_twice(xs) ==
    LET n == Len(xs)
        data == sorted(xs)
    IN  IF n % 2 = 1 THEN 2 * data[n \div 2 + 1]
        ELSE data[n \div 2] + data[n \div 2 + 1]

\* the trend with the two halves taken the other way round
_calculate_trend_swapped(recent_results) ==
    IF Len(recent_results) < 3 THEN "Insufficient data"
    ELSE LET n == Len(recent_results)
             session_scores == [i \in 1..n |-> recent_results[i].overall_score]
             n1 == n \div 2
             n2 == n - n1
             first_half == SumSeq(SubSeq(session_scores, 1, n1))
             second_half == SumSeq(SubSeq(session_scores, n1 + 1, n))
             diff == first_half * n2 - second_half * n1
         IN  IF diff > 100 * n1 * n2 THEN "Improving"
             ELSE IF diff < -100 * n1 * n2 THEN "Declining"
             ELSE "Stable"

\* _calculate_trend(recent_results): diff > 0.1 and diff < -0.1 are compared
\* after multiplying by the sizes n1, n2 of the two halves
_calculate_trend(recent_results) ==
    IF Len(recent_results) < 3 THEN "Insufficient data"
    ELSE LET n == Len(recent_results)
             session_scores == [i \in 1..n |-> recent_results[i].overall_score]
             n1 == n \div 2
             n2 == n - n1
             first_half == SumSeq(SubSeq(session_scores, 1, n1))
             second_half == SumSeq(SubSeq(session_scores, n1 + 1, n))
             diff == second_half * n1 - first_half * n2
         IN  IF diff > 100 * n1 * n2 THEN "Improving"
             ELSE IF diff < -100 * n1 * n2 THEN "Declining"
             ELSE "Stable"

\* the most recent valid session taken for the best one
best_session_most_recent(valid) == valid[1]

\* max(valid_results, key=overall_score): the first session of the highest score
best_session(valid) ==
    valid[CHOOSE i \in 1..Len(valid) :
              /\ \A j \in 1..Len(valid) : valid[j].overall_score <= valid[i].overall_score
              /\ \A j \in 1..i - 1 : valid[j].overall_score < valid[i].overall_score]

\* min(valid_results, key=overall_score): the first session of the lowest score
worst_session(valid) ==
    valid[CHOOSE i \in 1..Len(valid) :
              /\ \A j \in 1..Len(valid) : valid[j].overall_score >= valid[i].overall_score
              /\ \A j \in 1..i - 1 : valid[j].overall_score > valid[i].overall_score]

\* the trend of the summary with two valid sessions taken as enough
recent_trend_from_two(valid) ==
    IF Len(valid) >= 3 THEN _calculate_trend(last_n(valid, 5))
    ELSE IF Len(valid) = 2 THEN "Stable"
    ELSE "Insufficient data"

\* the trend of the summary: _calculate_trend(valid_results[-5:]) with three
\* valid sessions or more
recent_trend(valid) ==
    IF Len(valid) >= 3 THEN _calculate_trend(last_n(valid, 5)) ELSE "Insufficient data"

\* the summaries analyze_all_logs can build, for results with a valid session
summaries_of(results) ==
    LET valid == valid_results(results)
        n == Len(valid)
        session_scores == [i \in 1..n |-> valid[i].overall_score]
        grades == [i \in 1..n |-> valid[i].grade]
    IN  {[total_sessions     |-> Len(results),
          valid_sessions     |-> n,
          average_score      |-> average_score,
          median_score       |-> median_score,
          best_session       |-> best_session(valid),
          worst_session      |-> worst_session(valid),
          grade_distribution |-> [g \in set(grades) |->
                                     Cardinality({i \in 1..n : grades[i] = g})],
          recent_trend       |-> recent_trend(valid)] :
             average_score \in rounded(SumSeq(session_scores), n),
             median_score \in rounded(median_twice(session_scores), 2)}

\* results without a valid session answered with a summary of no session
analysis_of_empty_summary(results) ==
    IF valid_results(results) = <<>>
    THEN {[summary |-> [total_sessions |-> Len(results), valid_sessions |-> 0],
           sessions |-> results]}
    ELSE {[summary |-> summary, sessions |-> results] : summary \in summaries_of(results)}

\* what analyze_all_logs returns from these results
analysis_of(results) ==
    IF valid_results(results) = <<>>
    THEN {[error |-> "No valid conversations found in any logs"]}
    ELSE {[summary |-> summary, sessions |-> results] : summary \in summaries_of(results)}

\* the analysis of a listing taken before the file listed last was written
analyze_all_logs_stale_listing(exists, fs) ==
    IF ~exists THEN {[error |-> "Logs directory not found"]}
    ELSE LET log_files == glob(SubSeq(fs, 1, Len(fs) - 1))
         IN  IF log_files = <<>> THEN {[error |-> "No session log files found"]}
             ELSE UNION {analysis_of(results) :
                            results \in all_results(sorted_by_mtime_reverse(log_files))}

\* the values analyze_all_logs() can return, on a directory that exists or not
\* and lists the files fs
analyze_all_logs(exists, fs) ==
    IF ~exists THEN {[error |-> "Logs directory not found"]}
    ELSE LET log_files == glob(fs)
         IN  IF log_files = <<>> THEN {[error |-> "No session log files found"]}
             ELSE UNION {analysis_of(results) :
                            results \in all_results(sorted_by_mtime_reverse(log_files))}

-----------------------------------------------------------------------------
(* The corpus: the directory is created, files are written to it one after
   the other, and analyze_all_logs is called *)

MaxFiles == 6

\* the name of the k-th file written: a session log, or a file glob passes over
file_name(k, is_session) ==
    IF is_session THEN "session-" \o ToString(k) \o ".log"
    ELSE "notes-" \o ToString(k) \o ".txt"

\* where the directory lists the k-th file written: the order of a listing is
\* unrelated to the age of the files
listed(fs, f, k) == IF k % 2 = 0 THEN <<f>> \o fs ELSE Append(fs, f)

InitCorpus == Idle

MakeLogsDir ==
    /\ ~logs_dir_exists
    /\ logs_dir_exists' = TRUE
    /\ UNCHANGED <<transcript, cli_vars, user_input, ai_response, scores, weighted_score, line, current_user,
                   current_ai, conversations, result, files, analysis>>

\* a file is written to the directory, with the current time as its mtime
AddFile(content, readable, is_session) ==
    /\ logs_dir_exists
    /\ analysis = None
    /\ Len(files) < MaxFiles
    /\ LET k == Len(files) + 1
           f == [name |-> file_name(k, is_session), mtime |-> k,
                 readable |-> readable, content |-> content]
       IN  files' = listed(files, f, k)
    /\ UNCHANGED <<transcript, cli_vars, user_input, ai_response, scores, weighted_score, line, current_user,
                   current_ai, conversations, result, logs_dir_exists, analysis>>

AnalyzeAllLogs ==
    /\ analysis = None
    /\ \E a \in analyze_all_logs(logs_dir_exists, files) : analysis' = Some(a)
    /\ UNCHANGED <<transcript, cli_vars, user_input, ai_response, scores, weighted_score, line, current_user,
                   current_ai, conversations, result, files, logs_dir_exists>>

NextCorpus ==
    \/ MakeLogsDir
    \/ \E content \in Contents : AddFile(content, TRUE, TRUE)
    \/ AddFile(HighContent, FALSE, TRUE)
    \/ AddFile(HighContent, TRUE, FALSE)
    \/ AnalyzeAllLogs

SpecCorpus == InitCorpus /\ [][NextCorpus]_vars

-----------------------------------------------------------------------------
(* The summary alone: analyze_all_logs from line 272 on, applied to a list of
   per-file results, most recent first.  The results are given, not computed
   from files: analyze_log_file returns no overall_score above 0.83 or below
   0.27, and the summary and the trend are to be known for any score. *)

MaxTrendSessions == 5

\* the overall scores of the sessions given, in thousandths
ScenarioScores == {900, 850, 300, 250, 200}

\* a per-file result of this overall score, with the fields that lines 272 to
\* 289 read
session_of(score) ==
    [file          |-> "session.log",
     conversations |-> 1,
     overall_score |-> score,
     grade         |-> grade_of(100 * score, 1)]

\* the per-file results a list can hold: sessions, and the result of a file
\* that could not be read
GivenResults ==
    {session_of(score) : score \in ScenarioScores}
        \cup {[error |-> "Failed to read session.log"]}

InitTrend ==
    /\ user_input = None /\ ai_response = None /\ scores = None /\ weighted_score = None
    /\ line = None
    /\ current_user = None /\ current_ai = None /\ conversations = <<>>
    /\ result = None
    /\ files = <<>> /\ logs_dir_exists = TRUE /\ analysis = None
    /\ per_file_results \in UNION {[1..n -> GivenResults] : n \in 1..MaxTrendSessions}
    /\ partial = <<>>
    /\ args = None /\ output = <<>> /\ best_conversations = None /\ exported = None
    /\ calls = 0
    /\ transcript = <<>>

\* lines 271 to 295 of analyze_all_logs, on the list of results given
Summarize ==
    /\ analysis = None
    /\ \E a \in analysis_of(per_file_results) : analysis' = Some(a)
    /\ UNCHANGED <<transcript, user_input, ai_response, scores, weighted_score, line, current_user,
                   current_ai, conversations, result, files, logs_dir_exists,
                   cli_vars>>

NextTrend == Summarize

SpecTrend == InitTrend /\ [][NextTrend]_vars

-----------------------------------------------------------------------------
(* LogAnalyzer.get_best_conversations, LogAnalyzer.export_analysis and main.
   A printed line is written as the tuple of its label and of the values it
   shows; the file export_analysis writes is written as the analysis dumped
   to it. *)

\* seq[:limit]
slice_to(seq, limit) ==
    IF limit >= 0 THEN SubSeq(seq, 1, Min(limit, Len(seq)))
    ELSE SubSeq(seq, 1, Max(0, Len(seq) + limit))

\* the sort with conversations of equal score in the reverse of their order
sorted_by_weighted_score_unstable(convs) ==
    LET n == Len(convs)
        before(j, i) == \/ convs[j].weighted_score > convs[i].weighted_score
                        \/ convs[j].weighted_score = convs[i].weighted_score /\ j > i
        pos(i) == Cardinality({j \in 1..n : before(j, i)}) + 1
    IN  [k \in 1..n |-> convs[CHOOSE i \in 1..n : pos(i) = k]]

\* all_conversations.sort(key=weighted_score, reverse=True): highest first,
\* conversations of equal score in their order in the list (the sort is stable)
sorted_by_weighted_score_reverse(convs) ==
    LET n == Len(convs)
        before(j, i) == \/ convs[j].weighted_score > convs[i].weighted_score
                        \/ convs[j].weighted_score = convs[i].weighted_score /\ j < i
        pos(i) == Cardinality({j \in 1..n : before(j, i)}) + 1
    IN  [k \in 1..n |-> convs[CHOOSE i \in 1..n : pos(i) = k]]

\* the conversations of one session that get_best_conversations collects
collected(session, min_score) ==
    IF "detailed_scores" \notin DOMAIN session THEN <<>>
    ELSE LET enough(conv) == conv.weighted_score >= min_score
             kept == SelectSeq(session.detailed_scores, enough)
         IN  [i \in 1..Len(kept) |-> kept[i] @@ [session |-> session.file]]

\* get_best_conversations from the value of analyze_all_logs on
best_of(an, min_score, limit) ==
    IF "error" \in DOMAIN an THEN <<>>
    ELSE LET all_conversations[j \in 0..Len(an.sessions)] ==
                 IF j = 0 THEN <<>>
                 ELSE all_conversations[j - 1] \o collected(an.sessions[j], min_score)
         IN  slice_to(sorted_by_weighted_score_reverse(all_conversations[Len(an.sessions)]),
                      limit)

\* the values get_best_conversations(min_score, limit) can return
get_best_conversations(min_score, limit, exists, fs) ==
    {best_of(an, min_score, limit) : an \in analyze_all_logs(exists, fs)}

\* the analyses export_analysis() can write to its file and return
export_analysis(exists, fs) == analyze_all_logs(exists, fs)

\* the lines main prints for the conversations of --best
best_lines(convs) ==
    LET lines[i \in 0..Len(convs)] ==
            IF i = 0 THEN <<>>
            ELSE lines[i - 1] \o <<<<"Score", i, convs[i].weighted_score, convs[i].session>>,
                                   <<"User", convs[i].user>>,
                                   <<"AI", convs[i].ai>>>>
    IN  lines[Len(convs)]

\* the lines main prints for a summary; the grades are printed in the order
\* of sorted(), which is the order of their strings
summary_lines(summary) ==
    <<<<"Log Analysis Summary">>,
      <<"=">>,
      <<"Sessions analyzed", summary.valid_sessions, summary.total_sessions>>,
      <<"Average quality", summary.average_score>>,
      <<"Recent trend", summary.recent_trend>>,
      <<"Best session", summary.best_session.file, summary.best_session.overall_score,
        summary.best_session.grade>>,
      <<"Worst session", summary.worst_session.file, summary.worst_session.overall_score,
        summary.worst_session.grade>>,
      <<"Grade Distribution">>>> \o
    LET present(g) == g \in DOMAIN summary.grade_distribution
        grades == SelectSeq(<<"A", "A+", "B", "C", "D", "F">>, present)
    IN  [i \in 1..Len(grades) |-> <<"Grade", grades[i], summary.grade_distribution[grades[i]]>>]

\* the lines main prints for --recent: the first five sessions that have a
\* timestamp and no error
recent_lines(sessions) ==
    LET first == slice_to(sessions, 5)
        shown(session) == "error" \notin DOMAIN session /\ "timestamp" \in DOMAIN session
        recent == SelectSeq(first, shown)
    IN  <<<<"Recent Sessions">>>> \o
        [i \in 1..Len(recent) |->
            <<"Session", recent[i].file, recent[i].timestamp, recent[i].grade,
              recent[i].overall_score,
              IF recent[i].issues # <<>> THEN recent[i].issues ELSE <<"No issues">>>>]

\* what a run of main can print and export, for the command line a; the
\* default min_score of get_best_conversations is 0.8
main(a, exists, fs) ==
    IF a.best # None /\ a.best[1] # 0
    THEN {[output   |-> <<<<"Top Conversations", a.best[1]>>, <<"=">>>> \o best_lines(convs),
           exported |-> None] :
              convs \in get_best_conversations(80000, a.best[1], exists, fs)}
    ELSE UNION {IF "error" \in DOMAIN an
                THEN {[output |-> <<<<"Error", an.error>>>>, exported |-> None]}
                ELSE IF ~a.export
                THEN {[output   |-> summary_lines(an.summary) \o
                                    (IF a.recent THEN recent_lines(an.sessions) ELSE <<>>),
                       exported |-> None]}
                ELSE {[output   |-> summary_lines(an.summary) \o
                                    (IF a.recent THEN recent_lines(an.sessions) ELSE <<>>) \o
                                    <<<<"Analysis exported to", "log_analysis.json">>>>,
                       exported |-> Some(written)] :
                          written \in export_analysis(exists, fs)} :
                   an \in analyze_all_logs(exists, fs)}

-----------------------------------------------------------------------------
(* The tool: files are written to the log directory, and then the tool is run
   once with a command line, or the analyzer is called once *)

MaxToolFiles == 3

\* the transcripts written to the files
ToolContents == {HighContent, MixedContent, UserOnlyContent, MalformedContent}

\* the command lines: --best N or none, --recent, --export
CommandLines ==
    {[best |-> b, recent |-> r, export |-> x] :
        b \in {None, Some(0), Some(1), Some(2)}, r \in BOOLEAN, x \in BOOLEAN}

\* the arguments of get_best_conversations: min_score in units of 1/100000
\* (0.8 is the default) and limit (10 is the default)
MinScores == {0, 52000, 80000, 83000}
Limits == {0, 1, 2, 10}

InitTool == Idle

\* neither the tool nor the analyzer has run
NotRun == args = None /\ best_conversations = None /\ analysis = None

\* a run of main with the command line a
Main(a) ==
    /\ NotRun
    /\ \E run \in main(a, logs_dir_exists, files) :
           /\ args' = Some(a)
           /\ output' = run.output
           /\ exported' = run.exported
    /\ UNCHANGED <<transcript, user_input, ai_response, scores, weighted_score, line, current_user,
                   current_ai, conversations, result, files, logs_dir_exists, analysis,
                   per_file_results, partial, best_conversations, calls>>

\* a call of get_best_conversations: the arguments and the value returned
GetBestConversations(min_score, limit) ==
    /\ NotRun
    /\ \E convs \in get_best_conversations(min_score, limit, logs_dir_exists, files) :
           best_conversations' =
               Some([min_score |-> min_score, limit |-> limit, returned |-> convs])
    /\ UNCHANGED <<transcript, user_input, ai_response, scores, weighted_score, line, current_user,
                   current_ai, conversations, result, files, logs_dir_exists, analysis,
                   per_file_results, partial, args, output, exported, calls>>

NextTool ==
    \/ NotRun /\ MakeLogsDir
    \/ \E content \in ToolContents :
           NotRun /\ Len(files) < MaxToolFiles /\ AddFile(content, TRUE, TRUE)
    \/ \E a \in CommandLines : Main(a)
    \/ \E min_score \in MinScores, limit \in Limits : GetBestConversations(min_score, limit)
    \/ NotRun /\ AnalyzeAllLogs

SpecTool == InitTool /\ [][NextTool]_vars

-----------------------------------------------------------------------------
(* The loop of analyze_all_logs over the files (lines 267 to 269) with its
   order left free: the session files are analysed one at a time in any
   order, and the results are then put in the order of recency and
   summarised.  analyze_log_file reads the file and the tables set up by
   __init__, and writes nothing but its own local variables, so that the
   analysis of one file is one step. *)

MaxOrderFiles == 3

\* the results in the order in which the analyses were done
collect_as_done(done, ordered) == [k \in 1..Len(done) |-> done[k].result]

\* the results in the order of the files, taken from the analyses done
collect(done, ordered) ==
    [k \in 1..Len(ordered) |->
        (CHOOSE d \in {done[i] : i \in 1..Len(done)} : d.file = ordered[k].name).result]

InitOrder == Idle

\* analyze_log_file on one session file not analysed yet
AnalyzeFile(log_file) ==
    /\ analysis = None
    /\ fnmatch_session(log_file.name)
    /\ \A i \in 1..Len(partial) : partial[i].file # log_file.name
    /\ \E r \in analyze_log_file(log_file) :
           partial' = Append(partial, [file |-> log_file.name, result |-> r])
    /\ UNCHANGED <<transcript, user_input, ai_response, scores, weighted_score, line, current_user,
                   current_ai, conversations, result, files, logs_dir_exists, analysis,
                   per_file_results, args, output, best_conversations, exported, calls>>

\* every session file has been analysed: the rest of analyze_all_logs
SummarizeCollected ==
    /\ analysis = None
    /\ Len(partial) = Len(glob(files))
    /\ \E a \in IF ~logs_dir_exists THEN {[error |-> "Logs directory not found"]}
                 ELSE IF glob(files) = <<>> THEN {[error |-> "No session log files found"]}
                 ELSE analysis_of(collect(partial, sorted_by_mtime_reverse(glob(files)))) :
           analysis' = Some(a)
    /\ UNCHANGED <<transcript, user_input, ai_response, scores, weighted_score, line, current_user,
                   current_ai, conversations, result, files, logs_dir_exists,
                   cli_vars>>

NextOrder ==
    \/ partial = <<>> /\ analysis = None /\ MakeLogsDir
    \/ \E content \in Contents :
           partial = <<>> /\ Len(files) < MaxOrderFiles /\ AddFile(content, TRUE, TRUE)
    \/ partial = <<>> /\ Len(files) < MaxOrderFiles /\ AddFile(HighContent, FALSE, TRUE)
    \/ partial = <<>> /\ Len(files) < MaxOrderFiles /\ AddFile(HighContent, TRUE, FALSE)
    \/ \E i \in 1..Len(files) : AnalyzeFile(files[i])
    \/ SummarizeCollected

SpecOrder == InitOrder /\ [][NextOrder]_vars

-----------------------------------------------------------------------------
(* Calls over time: session files are written, rewritten and removed, and
   between these changes analyze_all_logs, get_best_conversations and
   export_analysis are called.  The variables analysis, best_conversations and
   exported hold the value of the last call made, of whichever kind. *)

MaxTime == 3
MaxCalls == 2

\* the names of the session files written and removed
LogNames == {file_name(1, TRUE), file_name(2, TRUE)}

\* the time of the next write: later than every file of the directory
now(fs) ==
    IF fs = <<>> THEN 1
    ELSE 1 + (CHOOSE t \in {fs[i].mtime : i \in 1..Len(fs)} :
                 \A i \in 1..Len(fs) : fs[i].mtime <= t)

InitCalls == Idle

\* the session file of this name is written: created at the end of the
\* listing, or rewritten in place, with the time of the write as its mtime
WriteLog(name, content) ==
    /\ logs_dir_exists
    /\ now(files) <= MaxTime
    /\ LET f == [name |-> name, mtime |-> now(files), readable |-> TRUE, content |-> content]
       IN  files' = IF \E i \in 1..Len(files) : files[i].name = name
                    THEN [i \in 1..Len(files) |-> IF files[i].name = name THEN f ELSE files[i]]
                    ELSE Append(files, f)
    /\ UNCHANGED <<transcript, user_input, ai_response, scores, weighted_score, line, current_user,
                   current_ai, conversations, result, logs_dir_exists, analysis,
                   cli_vars>>

\* the session file of this name is removed
RemoveLog(name) ==
    /\ \E i \in 1..Len(files) : files[i].name = name
    /\ files' = SelectSeq(files, LAMBDA f : f.name # name)
    /\ UNCHANGED <<transcript, user_input, ai_response, scores, weighted_score, line, current_user,
                   current_ai, conversations, result, logs_dir_exists, analysis,
                   cli_vars>>

\* a call of analyze_all_logs
CallAnalyzeAllLogs ==
    /\ calls < MaxCalls
    /\ calls' = calls + 1
    /\ \E a \in analyze_all_logs(logs_dir_exists, files) : analysis' = Some(a)
    /\ best_conversations' = None
    /\ exported' = None
    /\ UNCHANGED <<transcript, user_input, ai_response, scores, weighted_score, line, current_user,
                   current_ai, conversations, result, files, logs_dir_exists,
                   per_file_results, partial, args, output>>

\* a call of get_best_conversations
CallGetBestConversations(min_score, limit) ==
    /\ calls < MaxCalls
    /\ calls' = calls + 1
    /\ \E convs \in get_best_conversations(min_score, limit, logs_dir_exists, files) :
           best_conversations' =
               Some([min_score |-> min_score, limit |-> limit, returned |-> convs])
    /\ analysis' = None
    /\ exported' = None
    /\ UNCHANGED <<transcript, user_input, ai_response, scores, weighted_score, line, current_user,
                   current_ai, conversations, result, files, logs_dir_exists,
                   per_file_results, partial, args, output>>

\* a call of export_analysis
CallExportAnalysis ==
    /\ calls < MaxCalls
    /\ calls' = calls + 1
    /\ \E written \in export_analysis(logs_dir_exists, files) : exported' = Some(written)
    /\ analysis' = None
    /\ best_conversations' = None
    /\ UNCHANGED <<transcript, user_input, ai_response, scores, weighted_score, line, current_user,
                   current_ai, conversations, result, files, logs_dir_exists,
                   per_file_results, partial, args, output>>

NextCalls ==
    \/ MakeLogsDir
    \/ \E name \in LogNames, content \in {HighContent, LowContent} : WriteLog(name, content)
    \/ \E name \in LogNames : RemoveLog(name)
    \/ CallAnalyzeAllLogs
    \/ CallGetBestConversations(80000, 10)
    \/ CallExportAnalysis

SpecCalls == InitCalls /\ [][NextCalls]_vars

-----------------------------------------------------------------------------
(* Properties of the scorer (SpecScore) *)

\* C1: every score vector _score_response returns holds the five dimensions
\* coherence, relevance, completeness, creativity and safety, and each of the
\* five values lies in [0.0, 1.0] (0..1000 thousandths).
C1_ScoreVectorInRange ==
    scores # None =>
        /\ DOMAIN scores[1] =
               {"coherence", "relevance", "completeness", "creativity", "safety"}
        /\ \A d \in DOMAIN scores[1] : scores[1][d] >= 0 /\ scores[1][d] <= 1000

\* a response that matches four bad indicator groups has been scored, and its
\* relevance is held at 0.0
C1_Witness ==
    /\ scores # None
    /\ bad_groups(ai_response[1]) >= 4
    /\ scores[1].relevance = 0

\* C2: the weighted composite of a score vector of _score_response is the dot
\* product of the vector with the weights 0.25, 0.25, 0.20, 0.15, 0.15, which
\* sum to 1.0, and lies in [0.0, 1.0] (0..100000 in units of 1/100000).
C2_WeightedIsDotProduct ==
    /\ quality_weights.coherence + quality_weights.relevance
           + quality_weights.completeness + quality_weights.creativity
           + quality_weights.safety = 100
    /\ weighted_score # None =>
           /\ weighted_score[1] = 25 * scores[1].coherence + 25 * scores[1].relevance
                                    + 20 * scores[1].completeness
                                    + 15 * scores[1].creativity + 15 * scores[1].safety
           /\ weighted_score[1] >= 0
           /\ weighted_score[1] <= 100000

\* the composite of a vector whose five values are all above 0 has been
\* computed: 0.83
C2_Witness ==
    /\ weighted_score # None
    /\ \A d \in DOMAIN scores[1] : scores[1][d] > 0
    /\ weighted_score[1] = 83000

-----------------------------------------------------------------------------
(* Properties of a session (SpecSession, SpecLong) *)

\* C3, as stated: the grade of a SessionResult is the step function of that
\* result's overall_score, with the inclusive lower bounds 0.9, 0.8, 0.7, 0.6
\* and 0.5.
C3_GradeIsStepOfOverallScore ==
    (result # None /\ conversations # <<>>) =>
        LET score == result[1].overall_score
        IN  result[1].grade = IF score >= 900 THEN "A+"
                              ELSE IF score >= 800 THEN "A"
                              ELSE IF score >= 700 THEN "B"
                              ELSE IF score >= 600 THEN "C"
                              ELSE IF score >= 500 THEN "D"
                              ELSE "F"

\* C3, amended: the grade is that step function of the mean of the weighted
\* scores before it is rounded to three decimals for overall_score; it differs
\* from the step function of overall_score only where overall_score is one of
\* the bounds and the mean lies below it.
C3_GradeIsStepOfMean ==
    (result # None /\ conversations # <<>>) =>
        LET n == Len(conversations)
            total == SumSeq([i \in 1..n |->
                                _calculate_weighted_score(scored[conversations[i]])])
            step(num, den) == IF num >= 900 * den THEN "A+"
                              ELSE IF num >= 800 * den THEN "A"
                              ELSE IF num >= 700 * den THEN "B"
                              ELSE IF num >= 600 * den THEN "C"
                              ELSE IF num >= 500 * den THEN "D"
                              ELSE "F"
            score == result[1].overall_score
        IN  /\ result[1].grade = step(total, 100 * n)
            /\ result[1].grade # step(score, 1) =>
                   /\ score \in {900, 800, 700, 600, 500}
                   /\ total < score * 100 * n

\* a session of three pairs whose mean is 0.6 exactly has been graded C
C3_Witness ==
    /\ result # None
    /\ Len(conversations) = 3
    /\ SumSeq([i \in 1..3 |-> _calculate_weighted_score(scored[conversations[i]])])
           = 3 * 60000
    /\ result[1].grade = "C"

\* C4: a transcript from which no pair is extracted yields conversations 0,
\* overall_score 0.0, grade F and the single issue "No conversations found".
C4_EmptyTranscript ==
    (result # None /\ conversations = <<>>) =>
        /\ result[1].conversations = 0
        /\ result[1].overall_score = 0
        /\ result[1].grade = "F"
        /\ result[1].issues = <<"No conversations found">>

\* a transcript that ends on a user line still open, with no pair extracted,
\* has been analysed
C4_Witness ==
    /\ result # None
    /\ conversations = <<>>
    /\ line # None
    /\ markers[line[1]].kind = "user"
    /\ current_user # None

\* C5, as stated: for a transcript with a pair, overall_score is the mean of
\* the weighted scores of its pairs, and conversations is the number of detail
\* entries, one per pair in transcript order.
C5_OverallIsMean ==
    (result # None /\ conversations # <<>>) =>
        LET n == Len(conversations)
            details == result[1].detailed_scores
        IN  /\ result[1].conversations = n
            /\ Len(details) = n
            /\ \A i \in 1..n :
                   /\ details[i].scores = scored[conversations[i]]
                   /\ details[i].weighted_score =
                          _calculate_weighted_score(scored[conversations[i]])
            /\ result[1].overall_score * 100 * n =
                   SumSeq([i \in 1..n |-> details[i].weighted_score])

\* C5, amended: overall_score is that mean rounded to three decimals (it is
\* within half a thousandth of the mean), and conversations is the number of
\* detail entries, one per pair in transcript order.
C5_OverallIsRoundedMean ==
    (result # None /\ conversations # <<>>) =>
        LET n == Len(conversations)
            details == result[1].detailed_scores
            total == SumSeq([i \in 1..n |-> details[i].weighted_score])
            off == result[1].overall_score * 100 * n - total
        IN  /\ result[1].conversations = n
            /\ Len(details) = n
            /\ \A i \in 1..n :
                   /\ details[i].user = truncated(conversations[i][1], 50)
                   /\ details[i].ai = truncated(conversations[i][2], 100)
                   /\ details[i].scores = scored[conversations[i]]
                   /\ details[i].weighted_score =
                          _calculate_weighted_score(scored[conversations[i]])
            /\ 2 * off <= 100 * n
            /\ 2 * off >= -100 * n

\* a session of three pairs of different scores, whose mean is not a whole
\* number of thousandths and lies nearer to the thousandth above, has been
\* analysed
C5_Witness ==
    /\ result # None
    /\ Len(conversations) = 3
    /\ conversations[1] # conversations[2]
    /\ LET total == SumSeq([i \in 1..3 |-> result[1].detailed_scores[i].weighted_score])
       IN  2 * (total % 300) > 300

\* C6, as stated: for a session with a pair, if overall_score is below 0.6
\* the issues are "Poor <dimension>" for exactly the dimensions whose mean
\* over the pairs is below 0.5, and if overall_score is 0.6 or more the issues
\* are empty.
C6_IssuesFollowOverallScore ==
    (result # None /\ conversations # <<>>) =>
        LET n == Len(conversations)
            poor == {d \in {"coherence", "relevance", "completeness", "creativity",
                            "safety"} :
                        SumSeq([i \in 1..n |-> scored[conversations[i]][d]]) < 500 * n}
        IN  IF result[1].overall_score < 600
            THEN set(result[1].issues) = {"Poor " \o d : d \in poor}
            ELSE result[1].issues = <<>>

\* C6, amended: the issues are "Poor <dimension>" for exactly the dimensions
\* whose mean over the pairs is below 0.5 when the mean of the weighted scores,
\* before rounding, is below 0.6, that is when the grade is D or F; they are
\* empty when that mean is 0.6 or more, that is when the grade is C or better.
C6_IssuesFollowMean ==
    (result # None /\ conversations # <<>>) =>
        LET n == Len(conversations)
            total == SumSeq([i \in 1..n |->
                                _calculate_weighted_score(scored[conversations[i]])])
            poor == {d \in {"coherence", "relevance", "completeness", "creativity",
                            "safety"} :
                        SumSeq([i \in 1..n |-> scored[conversations[i]][d]]) < 500 * n}
        IN  /\ (total < 60000 * n) <=> (result[1].grade \in {"D", "F"})
            /\ IF total < 60000 * n
               THEN /\ set(result[1].issues) = {"Poor " \o d : d \in poor}
                    /\ Len(result[1].issues) = Cardinality(poor)
               ELSE result[1].issues = <<>>

\* a session of several pairs below 0.6 has been analysed, and its issues are
\* the two dimensions whose mean is below 0.5
C6_Witness ==
    /\ result # None
    /\ Len(conversations) >= 2
    /\ result[1].overall_score < 600
    /\ result[1].issues = <<"Poor relevance", "Poor creativity">>

\* C7: the parser pairs a user turn with one response at most, the first
\* assistant line.  A step of the parser emits one pair at most and keeps the
\* pairs emitted before; a pair is emitted only by an assistant line read
\* while a user turn is open, pairs that turn with that line, and closes the
\* turn; a turn is opened only by a user line; and an assistant line read while
\* no user turn is open emits nothing and opens none.
C7_FirstAssistantLineWins ==
    [][ /\ Len(conversations') \in {Len(conversations), Len(conversations) + 1}
        /\ SubSeq(conversations', 1, Len(conversations)) = conversations
        /\ Len(conversations') = Len(conversations) + 1 =>
               /\ line' # None
               /\ markers[line'[1]].kind \in {"stdout", "ai"}
               /\ current_user # None
               /\ conversations' =
                      Append(conversations, <<current_user[1], markers[line'[1]].text>>)
               /\ current_user' = None
               /\ current_ai' = None
        /\ (current_user' # None /\ current_user' # current_user) =>
               /\ line' # None
               /\ markers[line'[1]].kind = "user"
               /\ current_user' = Some(markers[line'[1]].text)
        /\ (result' = result /\ line' # None
                /\ markers[line'[1]].kind \in {"stdout", "ai"} /\ ~truthy(current_user)) =>
               /\ conversations' = conversations
               /\ current_user' = current_user
      ]_vars

\* a raw-channel line has answered the user turn, and the cleaned line read
\* after it, with no user line in between, has been dropped
C7_Witness ==
    /\ result = None
    /\ Len(conversations) = 1
    /\ conversations[1][2] = "the cat the cat the cat sat"
    /\ line = Some("AI: Certainly, here is the time you asked for. It is noon, and I am happy to help.")
    /\ current_user = None
    /\ current_ai = None

-----------------------------------------------------------------------------
(* Properties of the corpus (SpecCorpus) *)

\* C8: total_sessions counts every session file found, the unreadable ones
\* and those without a conversation included; valid_sessions, average_score,
\* median_score and the grade histogram are computed from the sessions that
\* have no error and at least one conversation, and from no other.
C8_SummaryOverValidSessions ==
    (analysis # None /\ "summary" \in DOMAIN analysis[1]) =>
        LET sessions == analysis[1].sessions
            summary == analysis[1].summary
            found == {i \in 1..Len(files) : fnmatch_session(files[i].name)}
            valid == {j \in 1..Len(sessions) :
                         "error" \notin DOMAIN sessions[j] /\ sessions[j].conversations > 0}
            n == Cardinality(valid)
            score(j) == sessions[j].overall_score
            total == SumSeq([j \in 1..Len(sessions) |-> IF j \in valid THEN score(j) ELSE 0])
            at_most(x) == Cardinality({j \in valid : score(j) <= x})
            rank(k) == CHOOSE x \in {score(j) : j \in valid} :
                           /\ at_most(x) >= k
                           /\ \A y \in {score(j) : j \in valid} : at_most(y) >= k => x <= y
            middle == rank((n + 1) \div 2) + rank(n \div 2 + 1)
            histogram == summary.grade_distribution
        IN  /\ summary.total_sessions = Cardinality(found)
            /\ Len(sessions) = Cardinality(found)
            /\ summary.valid_sessions = n
            /\ n = Cardinality({i \in found :
                                    /\ read_text(files[i]) # None
                                    /\ conversations_of[read_text(files[i])[1]] # <<>>})
            /\ 2 * (summary.average_score * n - total) <= n
            /\ 2 * (summary.average_score * n - total) >= -n
            /\ 2 * summary.median_score - middle \in {-1, 0, 1}
            /\ \A g \in {"A+", "A", "B", "C", "D", "F"} :
                   Cardinality({j \in valid : sessions[j].grade = g}) =
                       IF g \in DOMAIN histogram THEN histogram[g] ELSE 0
            /\ DOMAIN histogram \subseteq {sessions[j].grade : j \in valid}

\* a corpus with an unreadable file, a file without a conversation and valid
\* sessions of different scores has been analysed
C8_Witness ==
    /\ analysis # None
    /\ "summary" \in DOMAIN analysis[1]
    /\ \E j \in 1..Len(analysis[1].sessions) : "error" \in DOMAIN analysis[1].sessions[j]
    /\ \E j \in 1..Len(analysis[1].sessions) :
           /\ "error" \notin DOMAIN analysis[1].sessions[j]
           /\ analysis[1].sessions[j].conversations = 0
    /\ analysis[1].summary.valid_sessions >= 3
    /\ analysis[1].summary.total_sessions >= analysis[1].summary.valid_sessions + 2
    /\ Cardinality(DOMAIN analysis[1].summary.grade_distribution) = 2

\* C9, as stated: with at least 3 valid sessions the trend is computed over
\* the 5 most recent valid sessions at most; valid sessions older than these
\* have no influence on it.
C9_TrendOverMostRecent ==
    (analysis # None /\ "summary" \in DOMAIN analysis[1]) =>
        LET valid == valid_results(analysis[1].sessions)
            most_recent == SubSeq(valid, 1, Min(5, Len(valid)))
        IN  Len(valid) >= 3 =>
                analysis[1].summary.recent_trend = _calculate_trend(most_recent)

\* C10, as stated: within the window of n sessions the trend is computed
\* over, the earlier half is the floor(n/2) oldest sessions and the later half
\* the rest; the trend is Improving when mean(later) - mean(earlier) > 0.1,
\* Declining when it is < -0.1 and Stable otherwise.
C10_TrendFollowsTime ==
    (analysis # None /\ "summary" \in DOMAIN analysis[1]) =>
        LET valid == valid_results(analysis[1].sessions)
            window == last_n(valid, 5)
            n == Len(window)
            oldest_first == [i \in 1..n |-> window[n + 1 - i].overall_score]
            n1 == n \div 2
            n2 == n - n1
            earlier == SumSeq(SubSeq(oldest_first, 1, n1))
            later == SumSeq(SubSeq(oldest_first, n1 + 1, n))
            diff == later * n1 - earlier * n2
        IN  Len(valid) >= 3 =>
                analysis[1].summary.recent_trend =
                    IF diff > 100 * n1 * n2 THEN "Improving"
                    ELSE IF diff < -100 * n1 * n2 THEN "Declining"
                    ELSE "Stable"

-----------------------------------------------------------------------------
(* Properties of the summary (SpecTrend) *)

\* C11: given exactly 5 valid sessions whose overall scores, most recent
\* first, are 0.9, 0.85, 0.3, 0.25 and 0.2, the summary reports the trend
\* Declining.
C11_ScenarioIsDeclining ==
    (analysis # None /\ "summary" \in DOMAIN analysis[1]) =>
        LET valid == valid_results(analysis[1].sessions)
        IN  [i \in 1..Len(valid) |-> valid[i].overall_score]
                    = <<900, 850, 300, 250, 200>>
                => analysis[1].summary.recent_trend = "Declining"

\* the list of exactly these five sessions has been summarised
C11_Witness ==
    /\ analysis # None
    /\ per_file_results = [i \in 1..5 |-> session_of(<<900, 850, 300, 250, 200>>[i])]
    /\ analysis[1].sessions = per_file_results
    /\ analysis[1].summary.valid_sessions = 5
    /\ analysis[1].summary.recent_trend = "Declining"

-----------------------------------------------------------------------------
(* Further properties of the corpus (SpecCorpus) *)

\* C12: the trend of the summary is "Insufficient data" whenever the corpus
\* has fewer than 3 valid sessions (1 or 2), and is one of Improving, Declining
\* and Stable whenever it has 3 or more.
C12_TrendNeedsThreeSessions ==
    (analysis # None /\ "summary" \in DOMAIN analysis[1]) =>
        LET sessions == analysis[1].sessions
            n == Cardinality({j \in 1..Len(sessions) :
                                 /\ "error" \notin DOMAIN sessions[j]
                                 /\ sessions[j].conversations > 0})
            trend == analysis[1].summary.recent_trend
        IN  /\ n >= 1
            /\ n < 3 => trend = "Insufficient data"
            /\ n >= 3 => trend \in {"Improving", "Declining", "Stable"}

\* a corpus of four session files or more, of which only two are valid
\* sessions, has been analysed: its trend is the insufficient-data value
C12_Witness ==
    /\ analysis # None
    /\ "summary" \in DOMAIN analysis[1]
    /\ analysis[1].summary.total_sessions >= 4
    /\ analysis[1].summary.valid_sessions = 2
    /\ analysis[1].summary.recent_trend = "Insufficient data"

\* C13, as stated: when one session file cannot be read, analyze_all_logs
\* still completes and the file appears in sessions as a per-file error entry.
C13_UnreadableFileIsRecorded ==
    (/\ analysis # None
     /\ Cardinality({i \in 1..Len(files) : /\ fnmatch_session(files[i].name)
                                            /\ read_text(files[i]) = None}) = 1) =>
        /\ "sessions" \in DOMAIN analysis[1]
        /\ Cardinality({j \in 1..Len(analysis[1].sessions) :
                            "error" \in DOMAIN analysis[1].sessions[j]}) = 1

\* C13, amended: when session files cannot be read and another file yields a
\* valid session, each of them appears in sessions, at its place in the order
\* of recency, as a per-file error entry; the other entries are the results of
\* the corpus without these files, and the summary is the summary of that
\* corpus but for total_sessions, which counts them.  When no other file
\* yields a valid session, the analysis is the error of a corpus without valid
\* conversations, and holds no sessions.
C13_UnreadableFileIsSetAside ==
    (/\ analysis # None
     /\ \E i \in 1..Len(files) : /\ fnmatch_session(files[i].name)
                                  /\ read_text(files[i]) = None) =>
        LET ordered == sorted_by_mtime_reverse(glob(files))
            can_read(f) == read_text(f) # None
            others == sorted_by_mtime_reverse(glob(SelectSeq(files, can_read)))
            has_valid == \E j \in 1..Len(others) :
                             conversations_of[read_text(others[j])[1]] # <<>>
        IN  IF ~has_valid
            THEN analysis[1] = [error |-> "No valid conversations found in any logs"]
            ELSE LET sessions == analysis[1].sessions
                     summary == analysis[1].summary
                     no_error(r) == "error" \notin DOMAIN r
                     kept == SelectSeq(sessions, no_error)
                 IN  /\ DOMAIN analysis[1] = {"summary", "sessions"}
                     /\ Len(sessions) = Len(ordered)
                     /\ \A j \in 1..Len(sessions) :
                            ("error" \in DOMAIN sessions[j]) <=> ~can_read(ordered[j])
                     /\ Len(kept) = Len(others)
                     /\ \A j \in 1..Len(kept) : kept[j] \in analyze_log_file(others[j])
                     /\ summary.total_sessions = Len(sessions)
                     /\ summary.valid_sessions =
                            Cardinality({j \in 1..Len(others) :
                                conversations_of[read_text(others[j])[1]] # <<>>})
                     /\ \E s \in summaries_of(kept) :
                            summary = [s EXCEPT !.total_sessions = Len(sessions)]

\* a corpus in which one file cannot be read, neither the oldest nor the most
\* recent, and three others are valid sessions of two different scores, has
\* been analysed
C13_Witness ==
    /\ analysis # None
    /\ "summary" \in DOMAIN analysis[1]
    /\ LET sessions == analysis[1].sessions
       IN  /\ Cardinality({j \in 1..Len(sessions) : "error" \in DOMAIN sessions[j]}) = 1
           /\ "error" \notin DOMAIN sessions[1]
           /\ "error" \notin DOMAIN sessions[Len(sessions)]
    /\ analysis[1].summary.valid_sessions = 3
    /\ analysis[1].summary.best_session.overall_score
           > analysis[1].summary.worst_session.overall_score

\* C14: analyze_all_logs returns a value in every case.  For a missing log
\* directory, for a directory without session-*.log files and for a corpus in
\* which no file yields a valid session, the value has an error field and no
\* summary; in every other case it has a summary and no error field.
C14_ErrorOrSummary ==
    analysis # None =>
        LET found == {i \in 1..Len(files) : fnmatch_session(files[i].name)}
            valid == {i \in found : /\ read_text(files[i]) # None
                                     /\ conversations_of[read_text(files[i])[1]] # <<>>}
        IN  IF ~logs_dir_exists \/ found = {} \/ valid = {}
            THEN /\ "error" \in DOMAIN analysis[1]
                 /\ "summary" \notin DOMAIN analysis[1]
            ELSE /\ "summary" \in DOMAIN analysis[1]
                 /\ "error" \notin DOMAIN analysis[1]

\* a directory with a file that is no session log, a session file that cannot
\* be read and a session file without a conversation has been analysed: the
\* value is an error
C14_Witness ==
    /\ analysis # None
    /\ "error" \in DOMAIN analysis[1]
    /\ logs_dir_exists
    /\ \E i \in 1..Len(files) : ~fnmatch_session(files[i].name)
    /\ \E i \in 1..Len(files) : fnmatch_session(files[i].name) /\ read_text(files[i]) = None
    /\ \E i \in 1..Len(files) : /\ fnmatch_session(files[i].name)
                                 /\ read_text(files[i]) # None
                                 /\ conversations_of[read_text(files[i])[1]] = <<>>

\* C20: best_session and worst_session of the summary are valid sessions of
\* the corpus whose overall_score is the highest and the lowest of all valid
\* sessions, so that worst_session.overall_score <= median_score <=
\* best_session.overall_score, and the same for average_score.
C20_BestAndWorstBoundTheScores ==
    (analysis # None /\ "summary" \in DOMAIN analysis[1]) =>
        LET sessions == analysis[1].sessions
            summary == analysis[1].summary
            valid == {j \in 1..Len(sessions) :
                         "error" \notin DOMAIN sessions[j] /\ sessions[j].conversations > 0}
            highest == summary.best_session.overall_score
            lowest == summary.worst_session.overall_score
        IN  /\ \E j \in valid : sessions[j] = summary.best_session
            /\ \E j \in valid : sessions[j] = summary.worst_session
            /\ \A j \in valid : /\ sessions[j].overall_score <= highest
                                 /\ sessions[j].overall_score >= lowest
            /\ lowest <= summary.median_score
            /\ summary.median_score <= highest
            /\ lowest <= summary.average_score
            /\ summary.average_score <= highest

\* a corpus of four valid sessions or more has been analysed, in which the
\* most recent valid session is not the best one, the average lies between
\* the lowest score and the median, and the median is the highest score
C20_Witness ==
    /\ analysis # None
    /\ "summary" \in DOMAIN analysis[1]
    /\ analysis[1].summary.valid_sessions >= 4
    /\ valid_results(analysis[1].sessions)[1] # analysis[1].summary.best_session
    /\ analysis[1].summary.worst_session.overall_score < analysis[1].summary.average_score
    /\ analysis[1].summary.average_score < analysis[1].summary.median_score
    /\ analysis[1].summary.median_score = analysis[1].summary.best_session.overall_score

-----------------------------------------------------------------------------
(* Properties of the tool (SpecTool) *)

\* C15, as stated: in every command mode of the tool (default, --recent,
\* --export, --best N), a missing log directory or an empty corpus is reported
\* to the user as an error message, and the tool completes normally.
C15_ErrorIsReported ==
    (args # None /\ (~logs_dir_exists \/ glob(files) = <<>>)) =>
        \E k \in 1..Len(output) : output[k][1] = "Error"

\* C16: get_best_conversations(min_score, limit), for a limit of 0 or more,
\* returns the top pairs of the whole corpus: limit entries at most, each of a
\* weighted score of min_score or more, highest score first and pairs of equal
\* score in the order they are met (sessions most recent first, pairs in the
\* order of the transcript); no qualifying pair left out has a higher score
\* than a returned one, or an equal score and an earlier place.
C16_BestAreTopPairs ==
    best_conversations # None =>
        LET min_score == best_conversations[1].min_score
            limit == best_conversations[1].limit
            returned == best_conversations[1].returned
            can_read(f) == read_text(f) # None
            ordered == IF logs_dir_exists
                       THEN sorted_by_mtime_reverse(glob(SelectSeq(files, can_read)))
                       ELSE <<>>
            pairs_of(f) == conversations_of[read_text(f)[1]]
            entry(f, pair) == [user           |-> truncated(pair[1], 50),
                               ai             |-> truncated(pair[2], 100),
                               scores         |-> scored[pair],
                               weighted_score |-> _calculate_weighted_score(scored[pair]),
                               session        |-> f.name]
            met[j \in 0..Len(ordered)] ==
                IF j = 0 THEN <<>>
                ELSE met[j - 1] \o [i \in 1..Len(pairs_of(ordered[j])) |->
                                       entry(ordered[j], pairs_of(ordered[j])[i])]
            all == met[Len(ordered)]
            qualifying == {i \in 1..Len(all) : all[i].weighted_score >= min_score}
            ahead(i) == {j \in qualifying :
                            \/ all[j].weighted_score > all[i].weighted_score
                            \/ all[j].weighted_score = all[i].weighted_score /\ j < i}
        IN  /\ Len(returned) <= limit
            /\ Len(returned) = Min(limit, Cardinality(qualifying))
            /\ \A k \in 1..Len(returned) : returned[k].weighted_score >= min_score
            /\ \A k \in 1..Len(returned) - 1 :
                   returned[k].weighted_score >= returned[k + 1].weighted_score
            /\ \A i \in qualifying :
                   Cardinality(ahead(i)) < limit => returned[Cardinality(ahead(i)) + 1] = all[i]

\* the two best of four qualifying pairs of three sessions have been returned:
\* two pairs of the same score, the one of the more recent session first, and
\* a third pair of that score is left out
C16_Witness ==
    /\ best_conversations # None
    /\ best_conversations[1].limit = 2
    /\ best_conversations[1].min_score = 52000
    /\ Len(best_conversations[1].returned) = 2
    /\ Len(files) = 3
    /\ \A i \in 1..3 : files[i].content \in {HighContent, MixedContent}
    /\ best_conversations[1].returned[1].weighted_score = 83000
    /\ best_conversations[1].returned[2].weighted_score = 83000
    /\ best_conversations[1].returned[1].session = "session-3.log"
    /\ best_conversations[1].returned[2].session = "session-2.log"
    /\ \E i \in 1..3 : files[i].name = "session-1.log" /\ files[i].content = HighContent

\* C19, as stated: a session file that holds bytes that are not valid text
\* is read permissively: it is parsed and scored, and its entry in sessions is
\* a session result, not an error.
C19_MalformedBytesAreReplaced ==
    (analysis # None /\ "sessions" \in DOMAIN analysis[1]) =>
        LET ordered == sorted_by_mtime_reverse(glob(files))
        IN  \A j \in 1..Len(ordered) :
                (/\ ordered[j].readable
                 /\ \E i \in 1..Len(ordered[j].content) :
                        Char(ordered[j].content, i) = InvalidByte) =>
                    /\ "error" \notin DOMAIN analysis[1].sessions[j]
                    /\ analysis[1].sessions[j].conversations = 1

-----------------------------------------------------------------------------
(* Properties of the analysis of the files in any order (SpecOrder) *)

-----------------------------------------------------------------------------
(* Properties of calls over time (SpecCalls) *)

-----------------------------------------------------------------------------
(* Properties of the parser (SpecParser) *)

\* C21: the pairs emitted are those the marker lines determine.  Line i emits
\* a pair exactly when it is an assistant line (of either form) whose content
\* is longer than 3 characters and the marker line nearest before it is a user
\* line; the pair is the content of that user line and the content of line i,
\* and the pairs stand in the order of their assistant lines.  A marker line
\* is a line that starts with a marker once stripped, its content the stripped
\* text after the marker.
C21_PairsFollowMarkers ==
    LET n == Len(transcript)
        kind(i) == markers[transcript[i]].kind
        text(i) == markers[transcript[i]].text
        marked(i) == {j \in 1..i - 1 : kind(j) # "none"}
        nearest(i) == CHOOSE j \in marked(i) : \A k \in marked(i) : k <= j
        emits(i) == /\ kind(i) \in {"stdout", "ai"}
                    /\ Len(text(i)) > 3
                    /\ marked(i) # {}
                    /\ kind(nearest(i)) = "user"
        emitting == {i \in 1..n : emits(i)}
    IN  /\ Len(conversations) = Cardinality(emitting)
        /\ \A k \in 1..Len(conversations) :
               conversations[k] = <<text(nearest(Nth(emitting, k))), text(Nth(emitting, k))>>

\* a user line has replaced an unanswered one, the response that followed was
\* paired with the later one, and the response after that was dropped
C21_Witness ==
    /\ transcript = <<"You: what is the time", "  You: Tell me a story  ",
                      "[llama.cpp-stdout] the cat the cat the cat sat", "AI: okay">>
    /\ conversations = <<<<"Tell me a story", "the cat the cat the cat sat">>>>

\* C22: a line emits a pair only when a non-empty user turn is pending and the
\* line is a response longer than 3 characters, and the pair is that turn with
\* that response.  A response of 3 characters or fewer to a pending turn emits
\* nothing and clears both slots; a response that finds no pending turn emits
\* nothing and leaves both slots as they are.
C22_PairNeedsUserAndLongResponse ==
    [][ LET m == markers[line'[1]]
            response == m.kind \in {"stdout", "ai"}
        IN  /\ conversations' # conversations =>
                   /\ truthy(current_user)
                   /\ response
                   /\ Len(m.text) > 3
                   /\ conversations' = Append(conversations, <<current_user[1], m.text>>)
            /\ (response /\ truthy(current_user) /\ Len(m.text) <= 3) =>
                   /\ conversations' = conversations
                   /\ current_user' = None
                   /\ current_ai' = None
            /\ (response /\ ~truthy(current_user)) =>
                   /\ conversations' = conversations
                   /\ current_user' = current_user
                   /\ current_ai' = current_ai
      ]_vars

\* a response of 3 characters has consumed the user turn, and the response of
\* 4 characters that came after it was dropped
C22_Witness ==
    /\ transcript = <<"You: what is the time", "AI: yes", "AI: okay">>
    /\ conversations = <<>>
    /\ current_user = None
    /\ current_ai = None

\* C23, as stated: a line that starts with none of "You: ", "[llama.cpp-stdout] "
\* and "AI: " leaves the pending user turn, the pending response and the pairs
\* emitted unchanged.
C23_LinesWithoutPrefixAreIgnored ==
    [][ (/\ ~startswith(line'[1], "You: ")
         /\ ~startswith(line'[1], "[llama.cpp-stdout] ")
         /\ ~startswith(line'[1], "AI: ")) =>
            UNCHANGED <<current_user, current_ai, conversations>> ]_vars

\* C23, amended: the lines that, once stripped of the whitespace around them,
\* start with none of the three markers change nothing.  The pending user
\* turn, the pending response and the pairs emitted are those of the
\* transcript with every such line deleted.
C23_UnmarkedLinesChangeNothing ==
    LET marked(raw) == ~unmarked[raw]
        kept == SelectSeq(transcript, marked)
        st[i \in 0..Len(kept)] ==
            IF i = 0 THEN extract_init ELSE extract_step(st[i - 1], markers[kept[i]])
    IN  st[Len(kept)] = [current_user  |-> current_user,
                         current_ai    |-> current_ai,
                         conversations |-> conversations]

\* lines of the runtime and a line that holds nothing after "You: " stand
\* before the user line, between it and its response, and the pair is emitted
C23_Witness ==
    /\ transcript = <<"llama_print_timings: load time = 12 ms", "You: what is the time",
                      "llama_print_timings: load time = 12 ms", "You: ",
                      "[llama.cpp-stdout] the cat the cat the cat sat">>
    /\ conversations = <<<<"what is the time", "the cat the cat the cat sat">>>>

-----------------------------------------------------------------------------
(* Properties of the indicator rules and of the scores they bound *)

\* C24: a response is flagged as repetitive (and loses 0.4 of creativity, which
\* is then below 0.6) if and only if some phrase of 3 words occurs more than
\* twice among its words, or some word longer than 3 characters makes up more
\* than 20% of its words, whatever the number of its words; and the response
\* "the cat the cat the cat sat" is flagged.
C24_RepetitionIsFlagged ==
    scores # None =>
        LET text == ai_response[1]
            words == split(lower(text))
            n == Len(words)
            phrase(i) == SubSeq(words, i, i + 2)
            repeated_phrase ==
                \E i \in 1..n - 2 :
                    Cardinality({j \in 1..n - 2 : phrase(j) = phrase(i)}) > 2
            repeated_word ==
                \E i \in 1..n :
                    /\ Len(words[i]) > 3
                    /\ 5 * Cardinality({j \in 1..n : words[j] = words[i]}) > n
            flagged == scores[1].creativity < 600
        IN  /\ flagged <=> (repeated_phrase \/ repeated_word)
            /\ text = "the cat the cat the cat sat" => flagged

\* C25: the relevance of a response is max(0.0, 0.6 - 0.2 * k), k the number
\* of the six groups of bad indicators of which at least one pattern matches
\* the lowered response; a group of which several patterns match counts once.
C25_RelevanceCountsGroups ==
    /\ Len(bad_indicators) = 6
    /\ scores # None =>
           LET text == lower(ai_response[1])
               matches(g) == \E i \in 1..Len(bad_indicators[g]) :
                                 re_search(bad_indicators[g][i], text)
               k == Cardinality({g \in 1..6 : matches(g)})
           IN  scores[1].relevance = Max(0, 600 - 200 * k)

\* a response that matches three patterns of one group (disaster, pain, giving
\* up) and one of another (it ends in a word) has been scored: two groups, 0.2
C25_Witness ==
    /\ scores # None
    /\ ai_response[1] = "It was a disaster and the pain of giving up on the world"
    /\ scores[1].relevance = 200

\* C26: no session is graded A+.  Every pair of a session has coherence at
\* most 1.0, relevance at most 0.6, completeness at most 0.8, creativity at
\* most 0.9 and safety at most 0.9, hence a weighted score of 0.83 at most; the
\* overall score of the session is below 0.9 and its grade is one of A, B, C,
\* D and F.
C26_NoSessionIsGradedAPlus ==
    result # None =>
        /\ result[1].grade \in {"A", "B", "C", "D", "F"}
        /\ result[1].overall_score < 900
        /\ "detailed_scores" \in DOMAIN result[1] =>
               \A i \in 1..Len(result[1].detailed_scores) :
                   LET d == result[1].detailed_scores[i]
                   IN  /\ d.scores.coherence <= 1000
                       /\ d.scores.relevance <= 600
                       /\ d.scores.completeness <= 800
                       /\ d.scores.creativity <= 900
                       /\ d.scores.safety <= 900
                       /\ d.weighted_score <= 83000

\* a session of one pair that reaches every one of the five bounds has been
\* analysed: its score is 0.83 and its grade A
C26_Witness ==
    /\ result # None
    /\ result[1].conversations = 1
    /\ result[1].detailed_scores[1].scores =
           [coherence |-> 1000, relevance |-> 600, completeness |-> 800,
            creativity |-> 900, safety |-> 900]
    /\ result[1].detailed_scores[1].weighted_score = 83000
    /\ result[1].overall_score = 830
    /\ result[1].grade = "A"

\* C27: the issues of a session with at least one pair are among Poor
\* relevance, Poor creativity and Poor safety: every pair has coherence and
\* completeness of 0.5 at least, so neither mean is below 0.5.
C27_CoherenceAndCompletenessAreNeverPoor ==
    (result # None /\ result[1].conversations >= 1) =>
        /\ \A i \in 1..Len(result[1].issues) :
               result[1].issues[i] \in {"Poor relevance", "Poor creativity", "Poor safety"}
        /\ \A i \in 1..Len(result[1].detailed_scores) :
               /\ result[1].detailed_scores[i].scores.coherence >= 500
               /\ result[1].detailed_scores[i].scores.completeness >= 500

\* a session with pairs has been analysed in which a response is cut (its
\* completeness is 0.5, the least there is), a response has lost coherence
\* (0.6) and issues are reported
C27_Witness ==
    /\ result # None
    /\ result[1].conversations >= 1
    /\ result[1].issues # <<>>
    /\ \E i \in 1..Len(result[1].detailed_scores) :
           result[1].detailed_scores[i].scores.completeness = 500
    /\ \E i \in 1..Len(result[1].detailed_scores) :
           result[1].detailed_scores[i].scores.coherence = 600

====
